---- MODULE Spec2Model ----
(***************************************************************************)
(* The thread-safe crawl frontier (crawler/mt_frontier.py), the worker     *)
(* loop that drives it (crawler/mt_worker.py) and the part of scraper.py   *)
(* that decides which links a worker submits.                              *)
(*                                                                         *)
(* Time is counted in ticks of 0.25 s.  Every `with self._lock:` block is  *)
(* entered by an explicit acquire step; the scan loop of get_tbd_url is    *)
(* taken one iteration at a time while the lock is held.                   *)
(***************************************************************************)
EXTENDS Integers, Sequences, FiniteSets, TLC

\* ------------------------------------------------------------------ bounds
\* The clock counts 0..MaxClock; from then on time keeps passing with every
\* stored timestamp moved back instead (TickRebase).
MaxClock == 2
\* Longest list of hrefs found on one page.
MaxLinks == 1
\* Longest configured seed list.
MaxSeeds == 2

\* --------------------------------------------------------------- constants
\* max(delay, 0.5): the politeness floor, 0.5 s = 2 ticks.
MinDelay == 2
\* getattr(self.config, "time_delay", 0.5): the default, 0.5 s = 2 ticks.
DefaultDelay == 2
\* max(min_wait or self._delay, 0.01): 0.01 s, rounded up to one tick.
SleepFloor == 1
\* resp.status != 200
StatusOK == 200
\* if num_words < 50
MinWords == 50

\* Python's None, where the other values are strings ...
None == "None"
\* ... where they are numbers (every time of the model is >= 0) ...
NoTime == 0 - 1
\* ... and where they are pages.
NoPage == [none |-> TRUE]

Max(a, b) == IF a >= b THEN a ELSE b
Min(a, b) == IF a <= b THEN a ELSE b

\* ------------------------------------------------------------------- URLs
\* The URL strings of the model.  a1 and a2 share a host, b1 is on another
\* allowed host, ev is on a host outside the allowed domains.
URLS == {"a1", "a2", "b1"}
OffScope == {"ev"}
Links == URLS \cup OffScope
\* Three URLs of one host, for the callers that fill the queue with URLs
\* that have to wait.
ScanURLS == {"a1", "a2", "a3"}

\* urlparse(url): the fields the crawler reads.  hostname is the list of the
\* host's labels (empty: hostname is None); traps is the set of TRAP_WORDS that occur in path?query;
\* ext is the path's file extension.
urlparse(u) ==
    CASE u = "a1" -> [scheme |-> "http", netloc |-> "a.ics.uci.edu",
                      hostname |-> <<"a", "ics", "uci", "edu">>,
                      traps |-> {}, ext |-> ""]
      [] u = "a2" -> [scheme |-> "https", netloc |-> "a.ics.uci.edu",
                      hostname |-> <<"a", "ics", "uci", "edu">>,
                      traps |-> {}, ext |-> "html"]
      [] u = "a3" -> [scheme |-> "http", netloc |-> "a.ics.uci.edu",
                      hostname |-> <<"a", "ics", "uci", "edu">>,
                      traps |-> {}, ext |-> "php"]
      [] u = "b1" -> [scheme |-> "http", netloc |-> "cs.uci.edu",
                      hostname |-> <<"cs", "uci", "edu">>,
                      traps |-> {}, ext |-> ""]
      [] u = "ev" -> [scheme |-> "http", netloc |-> "evil.com",
                      hostname |-> <<"evil", "com">>,
                      traps |-> {}, ext |-> ""]
      [] OTHER    -> [scheme |-> "", netloc |-> "",
                      hostname |-> << >>,
                      traps |-> {}, ext |-> ""]

Netlocs == {urlparse(u).netloc : u \in URLS}

ALLOWED_DOMAINS ==
    { <<"ics", "uci", "edu">>, <<"cs", "uci", "edu">>,
      <<"informatics", "uci", "edu">>, <<"stat", "uci", "edu">> }

TRAP_WORDS ==
    { "format=pdf", "action=download", "share=", "sort=", "view=all",
      "ngs.ics", "wics.ics", "wp-content/uploads", "doku.php", "do=diff",
      "do=edit", "do=revisions", "do=backlink", "do=media", "namespace=",
      "idx=" }

SkippedExtensions ==
    { "css", "js", "bmp", "gif", "jpg", "jpeg", "ico", "png", "tif", "tiff",
      "mid", "mp2", "mp3", "mp4", "wav", "avi", "mov", "mpeg", "ram", "m4v",
      "mkv", "ogg", "ogv", "pdf", "ps", "eps", "tex", "ppt", "pptx", "doc",
      "docx", "xls", "xlsx", "names", "data", "dat", "exe", "bz2", "tar",
      "msi", "bin", "7z", "psd", "dmg", "iso", "epub", "dll", "cnf", "tgz",
      "sha1", "thmx", "mso", "arff", "rtf", "jar", "csv", "rm", "smil",
      "wmv", "swf", "wma", "zip", "rar", "gz" }

\* hostname == d or hostname.endswith("." + d), on label lists.
HostMatches(hostname, d) ==
    /\ Len(hostname) >= Len(d)
    /\ SubSeq(hostname, Len(hostname) - Len(d) + 1, Len(hostname)) = d

is_valid(u) ==
    LET parsed == urlparse(u) IN
    /\ parsed.scheme \in {"http", "https"}
    /\ parsed.hostname # << >>
    /\ \E d \in ALLOWED_DOMAINS : HostMatches(parsed.hostname, d)
    /\ parsed.traps \cap TRAP_WORDS = {}
    /\ parsed.ext \notin SkippedExtensions

\* ------------------------------------------------------- pages and scraper
RECURSIVE SeqsUpTo(_, _)
SeqsUpTo(S, n) ==
    IF n = 0 THEN { <<>> }
    ELSE LET shorter == SeqsUpTo(S, n - 1) IN
         shorter \cup { Append(s, x) : s \in { t \in shorter : Len(t) = n - 1 },
                                       x \in S }

RECURSIVE FilterSeq(_, _)
FilterSeq(s, keep) ==
    IF s = <<>> THEN <<>>
    ELSE (IF Head(s) \in keep THEN << Head(s) >> ELSE <<>>)
             \o FilterSeq(Tail(s), keep)

\* What download() hands back: a status and an optional page.  A page has
\* its headers (None: a page whose headers cannot be read), its word count
\* and the absolute hrefs found on it.
Pages ==
    { [headers |-> "text/html", num_words |-> MinWords, hrefs |-> l] :
        l \in SeqsUpTo(Links, MaxLinks) }
      \cup { [headers |-> "text/html", num_words |-> 0, hrefs |-> << "a2" >>],
             [headers |-> "application/pdf", num_words |-> 0, hrefs |-> <<>>],
             [headers |-> None, num_words |-> 0, hrefs |-> <<>>] }

Responses ==
    { [status |-> StatusOK, raw_response |-> p] : p \in Pages }
      \cup { [status |-> 404, raw_response |-> NoPage],
             [status |-> StatusOK, raw_response |-> NoPage] }

extract_next_links(r) ==
    IF r.raw_response = NoPage THEN <<>>
    ELSE IF r.raw_response.headers # "text/html" THEN <<>>
    ELSE r.raw_response.hrefs

\* scraper that returns the extracted links without filtering them.
scraper_unfiltered(r) ==
    IF r.status # StatusOK \/ r.raw_response = NoPage
    THEN [raised |-> FALSE, links |-> <<>>]
    ELSE IF r.raw_response.headers = None
    THEN [raised |-> TRUE, links |-> <<>>]
    ELSE LET num_words == IF r.raw_response.headers = "text/html"
                          THEN r.raw_response.num_words ELSE 0
         IN IF num_words < MinWords
            THEN [raised |-> FALSE, links |-> <<>>]
            ELSE [raised |-> FALSE, links |-> extract_next_links(r)]

\* scraper(url, resp): the list returned, or raised = TRUE when an
\* exception leaves it (raw.headers.get on headers that are None).
scraper(r) ==
    IF r.status # StatusOK \/ r.raw_response = NoPage
    THEN [raised |-> FALSE, links |-> <<>>]
    ELSE IF r.raw_response.headers = None
    THEN [raised |-> TRUE, links |-> <<>>]
    ELSE LET num_words == IF r.raw_response.headers = "text/html"
                          THEN r.raw_response.num_words ELSE 0
             links == extract_next_links(r)
         IN IF num_words < MinWords
            THEN [raised |-> FALSE, links |-> <<>>]
            ELSE [raised |-> FALSE,
                  links |-> FilterSeq(links, { l \in Links : is_valid(l) })]

\* ------------------------------------------------------------------ state
Threads == {"w1", "w2"}

VARIABLES
    \* Frontier fields
    _queue, _seen, _completed, _in_progress, _domain_next_allowed, _lock,
    _delay,
    \* Frontier.__init__
    config,      \* the parameter config, until __init__ has returned
    \* time.time()
    clock,
    \* each thread's position and the locals of the call it is in
    pc,          \* where the thread is
    url,         \* get_tbd_url: the URL popped in the scan
    now,         \* get_tbd_url: now = time.time()
    min_wait,    \* get_tbd_url: min_wait
    todo,        \* get_tbd_url: iterations left of range(len(self._queue))
    wake,        \* get_tbd_url: the clock value at which time.sleep(sleep_time) is over
    ret,         \* get_tbd_url: the value returned
    arg,         \* add_url / mark_url_complete: the parameter url
    run_url,     \* Worker.run: url
    next_links,  \* Worker.run: the links still to pass to add_url
    \* the record of what has happened
    dispatched,    \* per URL, how often get_tbd_url has returned it (2: more)
    held,          \* per thread, the URLs returned to it and not yet completed by it
    lastDispatch,  \* per host dispatched to, the `now` of its latest dispatch
    scan,          \* per thread in a scan pass, the queue at its start and the pops so far
    offscope_seeds \* the configured seeds that do not pass is_valid

ctor     == << config, offscope_seeds >>
frontier == << _queue, _seen, _completed, _in_progress, _domain_next_allowed,
               _lock, _delay, ctor >>
locals   == << url, now, min_wait, todo, wake, ret, arg >>
runvars  == << run_url, next_links >>
history  == << dispatched, held, lastDispatch, scan >>
vars     == << frontier, clock, pc, locals, runvars, history >>

\* ------------------------------------------------------- Frontier.__init__
\* add_url_body without the membership test.
add_url_body_untested(st, u) ==
    [st EXCEPT !.seen = @ \cup {u}, !.queue = Append(@, u)]

\* add_url_body testing only _completed, not _seen.
add_url_body_completed_only(st, u) ==
    IF u \in st.completed THEN st
    ELSE [st EXCEPT !.seen = @ \cup {u}, !.queue = Append(@, u)]

\* add_url_body testing only _seen, not _completed.
add_url_body_seen_only(st, u) ==
    IF u \in st.seen THEN st
    ELSE [st EXCEPT !.seen = @ \cup {u}, !.queue = Append(@, u)]

\* add_url_body without self._seen.add(url).
add_url_body_no_seen_add(st, u) ==
    IF u \in st.seen \/ u \in st.completed THEN st
    ELSE [st EXCEPT !.queue = Append(@, u)]

\* The body of add_url under the lock, on the three collections it reads.
add_url_body(st, u) ==
    IF u \in st.seen \/ u \in st.completed THEN st
    ELSE [st EXCEPT !.seen = @ \cup {u}, !.queue = Append(@, u)]

\* add_url(url): `if not url: return` comes before the lock.
add_url(st, u) == IF u = "" THEN st ELSE add_url_body(st, u)

RECURSIVE add_all(_, _)
add_all(st, seeds) ==
    IF seeds = <<>> THEN st
    ELSE add_all(add_url(st, Head(seeds)), Tail(seeds))

\* getattr(obj, name, default), an object being the record of its attributes
getattr(obj, name, default) ==
    IF name \in DOMAIN obj THEN obj[name] ELSE default

\* self._delay = max(delay, 0.5), delay = getattr(config, "time_delay", 0.5)
configured_delay(time_delay) ==
    Max(IF time_delay = NoTime THEN DefaultDelay ELSE time_delay, MinDelay)

\* config.time_delay as configured (NoTime: not configured), in ticks.
TimeDelays == {NoTime, 1, 3}

\* config.seed_urls: the non-empty lists over `urls`, which may repeat a URL
\* or hold "".
SeedLists(urls) == SeqsUpTo(urls \cup {""}, MaxSeeds) \ { <<>> }

\* The config object whose seed_urls is `seeds` and whose time_delay is
\* `time_delay` (NoTime: it has no attribute time_delay).
Config(seeds, time_delay) ==
    IF time_delay = NoTime THEN [seed_urls |-> seeds]
    ELSE [seed_urls |-> seeds, time_delay |-> time_delay]

Configs(urls, delays) ==
    { Config(seeds, time_delay) : seeds \in SeedLists(urls),
                                  time_delay \in delays }

\* `if not seeds` that never raises.
no_seeds_accepted(seeds) == FALSE

\* seeds = list(getattr(self.config, "seed_urls", [])); if not seeds
no_seeds(seeds) == seeds = <<>>

\* Frontier.__init__(config, restart): raised = TRUE when it raises
\* ValueError, else the fields it has set.
Frontier__init__(cfg) ==
    LET delay == getattr(cfg, "time_delay", NoTime)
        seeds == getattr(cfg, "seed_urls", <<>>)
        fresh == [queue |-> <<>>, seen |-> {}, completed |-> {}]
    IN IF no_seeds(seeds)
       THEN [raised |-> TRUE, st |-> fresh,
             delay |-> configured_delay(delay)]
       ELSE [raised |-> FALSE, st |-> add_all(fresh, seeds),
             delay |-> configured_delay(delay)]

\* config once __init__ has returned: nothing reads it again.
Constructed == [constructed |-> TRUE]

\* The seeds that add_url has enqueued although is_valid rejects them.
offscope(seeds) ==
    { seeds[i] : i \in { j \in DOMAIN seeds :
                            seeds[j] # "" /\ ~is_valid(seeds[j]) } }

\* The Frontier as __init__ has left it without raising.
FrontierInit(urls, delays) ==
    \E cfg \in Configs(urls, delays) :
        LET new == Frontier__init__(cfg)
        IN /\ ~new.raised
           /\ config = Constructed
           /\ offscope_seeds = offscope(cfg.seed_urls)
           /\ _queue = new.st.queue
           /\ _seen = new.st.seen
           /\ _completed = new.st.completed
           /\ _in_progress = 0
           /\ _domain_next_allowed = << >>
           /\ _lock = None
           /\ _delay = new.delay

\* No scan pass is under way.
NoScan == [queue |-> <<>>, pops |-> 0]

InitRest ==
    /\ clock = 0
    /\ url = [t \in Threads |-> None]
    /\ now = [t \in Threads |-> 0]
    /\ min_wait = [t \in Threads |-> NoTime]
    /\ todo = [t \in Threads |-> 0]
    /\ wake = [t \in Threads |-> 0]
    /\ ret = [t \in Threads |-> None]
    /\ arg = [t \in Threads |-> None]
    /\ run_url = [t \in Threads |-> None]
    /\ next_links = [t \in Threads |-> <<>>]
    /\ dispatched = [u \in Links \cup ScanURLS |-> 0]
    /\ held = [t \in Threads |-> {}]
    /\ lastDispatch = << >>
    /\ scan = [t \in Threads |-> NoScan]

\* Every thread is a Worker about to enter run().
Init == FrontierInit(URLS, TimeDelays) /\ InitRest /\ pc = [t \in Threads |-> "run"]

\* ------------------------------------------------------------ get_tbd_url
\* self._domain_next_allowed.get(domain, 0.0)
next_allowed_of(table, domain) ==
    IF domain \in DOMAIN table THEN table[domain] ELSE 0

\* self._domain_next_allowed[domain] = value
table_set(table, domain, value) ==
    [d \in DOMAIN table \cup {domain} |->
        IF d = domain THEN value ELSE table[d]]

\* wait = max(0.0, next_allowed - now)
wait_of(next_allowed, t_now) == Max(0, next_allowed - t_now)

\* is_ready with `<` for `<=`.
is_ready_strict(wait) == wait < 0

\* if wait <= 0
is_ready(wait) == wait <= 0

\* reserve_until without the delay.
reserve_until_now(t_now, delay) == t_now

\* self._domain_next_allowed[domain] = now + self._delay
reserve_until(t_now, delay) == t_now + delay

\* nothing_left without the test of _in_progress.
nothing_left_queue_only(queue, in_progress) == queue = <<>>

\* nothing_left without the test of the queue.
nothing_left_counter_only(queue, in_progress) == in_progress = 0

\* `if not self._queue` and `if self._in_progress == 0`: return None
nothing_left(queue, in_progress) == queue = <<>> /\ in_progress = 0

\* sleep_time = max(min_wait or self._delay, 0.01)
scan_sleep_time(mw, delay) ==
    Max(IF mw = NoTime \/ mw = 0 THEN delay ELSE mw, SleepFloor)

\* The lock kept through time.sleep.
lock_during_sleep_held(t) == t

\* line 95 is outside the with block of line 59: the lock during time.sleep
lock_during_sleep(t) == None

\* put_back that drops the URL.
put_back_dropped(queue, u) == queue

\* put_back at the front of the queue (appendleft).
put_back_front(queue, u) == << u >> \o queue

\* self._queue.append(url)   (line 87)
put_back(queue, u) == Append(queue, u)

\* with self._lock:   (line 59)
GetLock(t) ==
    /\ pc[t] = "get_lock"
    /\ _lock = None
    /\ _lock' = t
    /\ pc' = [pc EXCEPT ![t] = "get_check"]
    /\ UNCHANGED << _queue, _seen, _completed, _in_progress,
                    _domain_next_allowed, _delay, ctor, clock, locals, runvars,
                    history >>

\* lines 60-70: the empty-queue test, or the start of a scan pass
GetCheck(t) ==
    /\ pc[t] = "get_check"
    /\ IF nothing_left(_queue, _in_progress)
       THEN \* return None, leaving the with block
            /\ _lock' = None
            /\ ret' = [ret EXCEPT ![t] = None]
            /\ pc' = [pc EXCEPT ![t] = "get_ret"]
            /\ UNCHANGED << now, min_wait, todo, wake, scan >>
       ELSE IF _queue = <<>>
       THEN \* sleep_time = self._delay; leave the with block; time.sleep
            /\ _lock' = lock_during_sleep(t)
            /\ wake' = [wake EXCEPT ![t] = clock + _delay]
            /\ pc' = [pc EXCEPT ![t] = "get_sleep"]
            /\ UNCHANGED << now, min_wait, todo, ret, scan >>
       ELSE /\ now' = [now EXCEPT ![t] = clock]
            /\ min_wait' = [min_wait EXCEPT ![t] = NoTime]
            /\ todo' = [todo EXCEPT ![t] = Len(_queue)]
            /\ pc' = [pc EXCEPT ![t] = "get_scan"]
            /\ scan' = [scan EXCEPT ![t] = [queue |-> _queue, pops |-> 0]]
            /\ UNCHANGED << _lock, wake, ret >>
    /\ UNCHANGED << _queue, _seen, _completed, _in_progress,
                    _domain_next_allowed, _delay, ctor, clock, url, arg, runvars,
                    dispatched, held, lastDispatch >>

\* lines 73-74 and 92: the head of the for loop
GetScan(t) ==
    /\ pc[t] = "get_scan"
    /\ IF todo[t] > 0
       THEN \* url = self._queue.popleft()
            /\ url' = [url EXCEPT ![t] = Head(_queue)]
            /\ _queue' = Tail(_queue)
            /\ todo' = [todo EXCEPT ![t] = @ - 1]
            /\ pc' = [pc EXCEPT ![t] = "get_test"]
            /\ scan' = [scan EXCEPT ![t].pops = @ + 1]
            /\ UNCHANGED << _lock, now, min_wait, wake >>
       ELSE \* no URL is ready: leave the with block and sleep
            /\ _lock' = lock_during_sleep(t)
            /\ scan' = [scan EXCEPT ![t] = NoScan]
            /\ wake' = [wake EXCEPT
                          ![t] = clock + scan_sleep_time(min_wait[t], _delay)]
            /\ pc' = [pc EXCEPT ![t] = "get_sleep"]
            /\ now' = [now EXCEPT ![t] = 0]
            /\ min_wait' = [min_wait EXCEPT ![t] = NoTime]
            /\ UNCHANGED << _queue, url, todo >>
    /\ UNCHANGED << _seen, _completed, _in_progress, _domain_next_allowed,
                    _delay, ctor, clock, ret, arg, runvars, dispatched, held,
                    lastDispatch >>

\* lines 75-89: the body of the for loop on the popped url
GetTest(t) ==
    /\ pc[t] = "get_test"
    /\ LET domain == urlparse(url[t]).netloc
           next_allowed == next_allowed_of(_domain_next_allowed, domain)
           wait == wait_of(next_allowed, now[t])
       IN IF is_ready(wait)
          THEN \* reserve the domain and return url, leaving the with block
               /\ _domain_next_allowed' =
                     table_set(_domain_next_allowed, domain,
                               reserve_until(now[t], _delay))
               /\ _in_progress' = _in_progress + 1
               /\ _lock' = None
               /\ ret' = [ret EXCEPT ![t] = url[t]]
               /\ pc' = [pc EXCEPT ![t] = "get_ret"]
               /\ url' = [url EXCEPT ![t] = None]
               /\ now' = [now EXCEPT ![t] = 0]
               /\ min_wait' = [min_wait EXCEPT ![t] = NoTime]
               /\ todo' = [todo EXCEPT ![t] = 0]
               /\ dispatched' = [dispatched EXCEPT ![url[t]] = Min(@ + 1, 2)]
               /\ held' = [held EXCEPT ![t] = @ \cup {url[t]}]
               /\ lastDispatch' = table_set(lastDispatch, domain, now[t])
               /\ scan' = [scan EXCEPT ![t] = NoScan]
               /\ UNCHANGED _queue
          ELSE \* not ready: back to the end of the queue
               /\ _queue' = put_back(_queue, url[t])
               /\ min_wait' = [min_wait EXCEPT
                                 ![t] = IF @ = NoTime \/ wait < @ THEN wait ELSE @]
               /\ url' = [url EXCEPT ![t] = None]
               /\ pc' = [pc EXCEPT ![t] = "get_scan"]
               /\ UNCHANGED << _domain_next_allowed, _in_progress, _lock, ret,
                               now, todo, history >>
    /\ UNCHANGED << _seen, _completed, _delay, ctor, clock, wake, arg, runvars >>

\* line 95: time.sleep(sleep_time) is over, back to `while True`
GetSleep(t) ==
    /\ pc[t] = "get_sleep"
    /\ clock >= wake[t]
    /\ pc' = [pc EXCEPT ![t] = "get_lock"]
    /\ wake' = [wake EXCEPT ![t] = 0]
    /\ UNCHANGED << frontier, clock, url, now, min_wait, todo, ret, arg,
                    runvars, history >>

\* ----------------------------------------------------------------- add_url
\* line 99: `if not url: return`, else on to the with block
add_url_entry(u) == IF u = "" THEN "add_ret" ELSE "add_lock"

\* with self._lock:   (line 101)
AddLock(t) ==
    /\ pc[t] = "add_lock"
    /\ _lock = None
    /\ _lock' = t
    /\ pc' = [pc EXCEPT ![t] = "add_body"]
    /\ UNCHANGED << _queue, _seen, _completed, _in_progress,
                    _domain_next_allowed, _delay, ctor, clock, locals, runvars,
                    history >>

\* lines 102-105, and leaving the with block
AddBody(t) ==
    /\ pc[t] = "add_body"
    /\ LET st == add_url_body([queue |-> _queue, seen |-> _seen,
                               completed |-> _completed], arg[t])
       IN /\ _queue' = st.queue
          /\ _seen' = st.seen
          /\ _completed' = st.completed
    /\ _lock' = None
    /\ pc' = [pc EXCEPT ![t] = "add_ret"]
    /\ UNCHANGED << _in_progress, _domain_next_allowed, _delay, ctor, clock, locals,
                    runvars, history >>

\* ------------------------------------------------------- mark_url_complete
\* line 109: `if not url: return`, else on to the with block
mark_entry(u) == IF u = "" THEN "mark_ret" ELSE "mark_lock"

\* one_less without the test `> 0`.
one_less_unguarded(in_progress) == in_progress - 1

\* one_less that forgets the decrement.
one_less_never(in_progress) == in_progress

\* lines 114-115: if self._in_progress > 0: self._in_progress -= 1
one_less(in_progress) ==
    IF in_progress > 0 THEN in_progress - 1 ELSE in_progress

\* completed_with that forgets the URL.
completed_with_nothing(completed, u) == completed

\* self._completed.add(url)   (line 112)
completed_with(completed, u) == completed \cup {u}

\* with self._lock:   (line 111)
MarkLock(t) ==
    /\ pc[t] = "mark_lock"
    /\ _lock = None
    /\ _lock' = t
    /\ pc' = [pc EXCEPT ![t] = "mark_body"]
    /\ UNCHANGED << _queue, _seen, _completed, _in_progress,
                    _domain_next_allowed, _delay, ctor, clock, locals, runvars,
                    history >>

\* lines 112-115, and leaving the with block
MarkBody(t) ==
    /\ pc[t] = "mark_body"
    /\ _completed' = completed_with(_completed, arg[t])
    /\ _in_progress' = one_less(_in_progress)
    /\ _lock' = None
    /\ pc' = [pc EXCEPT ![t] = "mark_ret"]
    /\ held' = [held EXCEPT ![t] = @ \ {arg[t]}]
    /\ UNCHANGED << _queue, _seen, _domain_next_allowed, _delay, ctor, clock, locals,
                    runvars, dispatched, lastDispatch, scan >>

\* -------------------------------------------------------------- Worker.run
\* line 23: url = self.frontier.get_tbd_url()
RunGet(t) ==
    /\ pc[t] = "run"
    /\ pc' = [pc EXCEPT ![t] = "get_lock"]
    /\ UNCHANGED << frontier, clock, locals, runvars, history >>

\* lines 23-26: the call has returned; `if url is None: break`
RunGot(t) ==
    /\ pc[t] = "get_ret"
    /\ run_url' = [run_url EXCEPT ![t] = ret[t]]
    /\ ret' = [ret EXCEPT ![t] = None]
    /\ pc' = [pc EXCEPT ![t] = IF ret[t] = None THEN "exit" ELSE "download"]
    /\ UNCHANGED << frontier, clock, url, now, min_wait, todo, wake, arg,
                    next_links, history >>

\* lines 31-35: next_links = scraper(url, resp) or [], [] when it raises
links_of(r) ==
    LET got == scraper(r) IN IF got.raised THEN <<>> ELSE got.links

\* lines 29-35.  resp = download(url, self.config) is outside the try
\* block: an exception raised by download leaves run() and ends the thread.
RunFetch(t) ==
    /\ pc[t] = "download"
    /\ \/ \E r \in Responses :
             /\ next_links' = [next_links EXCEPT ![t] = links_of(r)]
             /\ pc' = [pc EXCEPT ![t] = "links"]
       \/ /\ pc' = [pc EXCEPT ![t] = "raised"]
          /\ UNCHANGED next_links
    /\ UNCHANGED << frontier, clock, locals, run_url, history >>

\* lines 37-40, at the start of the for loop or when add_url has returned:
\* the next add_url(link), or mark_url_complete(url) after the last one
RunLinks(t) ==
    /\ pc[t] \in {"links", "add_ret"}
    /\ IF next_links[t] # <<>>
       THEN /\ arg' = [arg EXCEPT ![t] = Head(next_links[t])]
            /\ next_links' = [next_links EXCEPT ![t] = Tail(@)]
            /\ pc' = [pc EXCEPT ![t] = add_url_entry(Head(next_links[t]))]
       ELSE /\ arg' = [arg EXCEPT ![t] = run_url[t]]
            /\ pc' = [pc EXCEPT ![t] = mark_entry(run_url[t])]
            /\ UNCHANGED next_links
    /\ UNCHANGED << frontier, clock, url, now, min_wait, todo, wake, ret,
                    run_url, history >>

\* line 40: mark_url_complete has returned, back to `while True`
RunMarked(t) ==
    /\ pc[t] = "mark_ret"
    /\ arg' = [arg EXCEPT ![t] = None]
    /\ run_url' = [run_url EXCEPT ![t] = None]
    /\ pc' = [pc EXCEPT ![t] = "run"]
    /\ UNCHANGED << frontier, clock, url, now, min_wait, todo, wake, ret,
                    next_links, history >>

\* ------------------------------------------------- any caller of the API
\* The public API (lines 47-115) called in any order by threads that are
\* not Workers: a thread that is in no call makes any call with any
\* argument, also mark_url_complete for a URL it never received.  These
\* callers know two URLs of one host, and "".
ApiURLS == {"a1", "a2"}

ApiGet(t) ==
    /\ pc[t] = "idle"
    /\ pc' = [pc EXCEPT ![t] = "get_lock"]
    /\ UNCHANGED << frontier, clock, locals, runvars, history >>

ApiAdd(t) ==
    /\ pc[t] = "idle"
    /\ \E u \in ApiURLS \cup {""} :
          /\ arg' = [arg EXCEPT ![t] = u]
          /\ pc' = [pc EXCEPT ![t] = add_url_entry(u)]
    /\ UNCHANGED << frontier, clock, url, now, min_wait, todo, wake, ret,
                    runvars, history >>

ApiMark(t) ==
    /\ pc[t] = "idle"
    /\ \E u \in ApiURLS \cup {""} :
          /\ arg' = [arg EXCEPT ![t] = u]
          /\ pc' = [pc EXCEPT ![t] = mark_entry(u)]
    /\ UNCHANGED << frontier, clock, url, now, min_wait, todo, wake, ret,
                    runvars, history >>

\* The call has returned.
ApiReturn(t) ==
    /\ pc[t] \in {"get_ret", "add_ret", "mark_ret"}
    /\ pc' = [pc EXCEPT ![t] = "idle"]
    /\ ret' = [ret EXCEPT ![t] = None]
    /\ arg' = [arg EXCEPT ![t] = None]
    /\ UNCHANGED << frontier, clock, url, now, min_wait, todo, wake, runvars,
                    history >>

\* Callers that use the API as Worker.run does, on the URLs of ScanURLS:
\* they complete only what they have received.
ScanAdd(t) ==
    /\ pc[t] = "idle"
    /\ \E u \in ScanURLS :
          /\ arg' = [arg EXCEPT ![t] = u]
          /\ pc' = [pc EXCEPT ![t] = add_url_entry(u)]
    /\ UNCHANGED << frontier, clock, url, now, min_wait, todo, wake, ret,
                    runvars, history >>

ScanMark(t) ==
    /\ pc[t] = "idle"
    /\ \E u \in held[t] :
          /\ arg' = [arg EXCEPT ![t] = u]
          /\ pc' = [pc EXCEPT ![t] = mark_entry(u)]
    /\ UNCHANGED << frontier, clock, url, now, min_wait, todo, wake, ret,
                    runvars, history >>

\* ------------------------------------------------------------- time.time()
\* One tick passes.
Tick ==
    /\ clock < MaxClock
    /\ clock' = clock + 1
    /\ UNCHANGED << frontier, pc, locals, runvars, history >>

\* One tick passes with the clock at MaxClock: every stored time moves one
\* tick back instead.  A time of the past stays at 0 (it is <= every later
\* reading of the clock either way); a dispatch time, which is compared by
\* its distance to a later reading, stays at -_delay.  Not while a thread
\* holds the lock, whose `now` may be older than the clock.
back(table, floor) == [d \in DOMAIN table |-> Max(table[d] - 1, floor)]

TickRebase ==
    /\ clock = MaxClock
    /\ _lock = None
    /\ _domain_next_allowed' = back(_domain_next_allowed, 0)
    /\ wake' = back(wake, 0)
    /\ lastDispatch' = back(lastDispatch, 0 - _delay)
    /\ \/ _domain_next_allowed' # _domain_next_allowed
       \/ wake' # wake
       \/ lastDispatch' # lastDispatch
    /\ UNCHANGED << _queue, _seen, _completed, _in_progress, _lock, _delay,
                    ctor, clock, pc, url, now, min_wait, todo, ret, arg,
                    runvars, dispatched, held, scan >>

\* ---------------------------------------------------------------- start-up
\* The crawler is started with a config whose seed_urls is missing, empty or
\* a list over a1, the out-of-scope ev and "".
StartURLS == {"a1", "ev"}

without_seed_urls(cfg) ==
    [a \in DOMAIN cfg \ {"seed_urls"} |-> cfg[a]]

StartConfigs ==
    LET with == Configs(StartURLS, TimeDelays)
                   \cup { Config(<<>>, d) : d \in TimeDelays }
    IN with \cup { without_seed_urls(cfg) : cfg \in with }

\* Frontier(config, restart) is constructed; the Workers are started when
\* it has not raised.
FrontierNew ==
    /\ \A t \in Threads : pc[t] = "new"
    /\ LET new == Frontier__init__(config)
       IN /\ _queue' = new.st.queue
          /\ _seen' = new.st.seen
          /\ _completed' = new.st.completed
          /\ _delay' = new.delay
          /\ offscope_seeds' = offscope(getattr(config, "seed_urls", <<>>))
          /\ pc' = [t \in Threads |->
                       IF new.raised THEN "no_frontier" ELSE "run"]
    /\ config' = Constructed
    /\ UNCHANGED << _in_progress, _domain_next_allowed, _lock, clock, locals,
                    runvars, history >>

\* ------------------------------------------------------------------- specs
FrontierStep(t) ==
    \/ GetLock(t) \/ GetCheck(t) \/ GetScan(t) \/ GetTest(t) \/ GetSleep(t)
    \/ AddLock(t) \/ AddBody(t)
    \/ MarkLock(t) \/ MarkBody(t)

WorkerStep(t) ==
    \/ RunGet(t) \/ RunGot(t) \/ RunFetch(t) \/ RunLinks(t) \/ RunMarked(t)

Next ==
    \/ \E t \in Threads : FrontierStep(t)
    \/ \E t \in Threads : WorkerStep(t)
    \/ Tick
    \/ TickRebase

\* N Workers running Worker.run against one Frontier.
Spec == Init /\ [][Next]_vars

ApiStep(t) ==
    \/ ApiGet(t) \/ ApiAdd(t) \/ ApiMark(t) \/ ApiReturn(t)

ApiInit == FrontierInit(ApiURLS, TimeDelays) /\ InitRest /\ pc = [t \in Threads |-> "idle"]

ApiNext ==
    \/ \E t \in Threads : FrontierStep(t)
    \/ \E t \in Threads : ApiStep(t)
    \/ Tick
    \/ TickRebase

\* N threads calling the Frontier's API in any order.
ApiSpec == ApiInit /\ [][ApiNext]_vars

ScanInit ==
    FrontierInit(ScanURLS, {NoTime}) /\ InitRest /\ pc = [t \in Threads |-> "idle"]

ScanStep(t) ==
    \/ ApiGet(t) \/ ScanAdd(t) \/ ScanMark(t) \/ ApiReturn(t)

ScanNext ==
    \/ \E t \in Threads : FrontierStep(t)
    \/ \E t \in Threads : ScanStep(t)
    \/ Tick
    \/ TickRebase

\* N threads that get, add and complete URLs of one host.
ScanSpec == ScanInit /\ [][ScanNext]_vars

StartInit ==
    /\ config \in StartConfigs
    /\ offscope_seeds = {}
    /\ _queue = <<>>
    /\ _seen = {}
    /\ _completed = {}
    /\ _in_progress = 0
    /\ _domain_next_allowed = << >>
    /\ _lock = None
    /\ _delay = NoTime
    /\ InitRest
    /\ pc = [t \in Threads |-> "new"]

StartNext ==
    \/ FrontierNew
    \/ \E t \in Threads : FrontierStep(t)
    \/ \E t \in Threads : WorkerStep(t)
    \/ Tick
    \/ TickRebase

\* The crawl from its start: the Frontier is constructed, then N Workers
\* run Worker.run against it.
StartSpec == StartInit /\ [][StartNext]_vars

\* Spec with every worker thread scheduled fairly and time passing: a
\* thread that can take a step takes one, a thread that waits for the lock
\* gets it when it is free again and again, and the clock keeps advancing.
Fairness ==
    /\ \A t \in Threads :
          /\ WF_vars(WorkerStep(t)
                        \/ GetCheck(t) \/ GetScan(t) \/ GetTest(t) \/ GetSleep(t)
                        \/ AddBody(t) \/ MarkBody(t))
          /\ SF_vars(GetLock(t) \/ AddLock(t) \/ MarkLock(t))
    /\ SF_vars(Tick \/ TickRebase)

\* The workers of LiveSpec run with the default politeness delay.
LiveInit ==
    FrontierInit(URLS, {NoTime}) /\ InitRest /\ pc = [t \in Threads |-> "run"]

LiveSpec == LiveInit /\ [][Next]_vars /\ Fairness

\* ------------------------------------------------------------------ claims
\* The step in which get_tbd_url returns URL u to thread t.
Dispatch(t, u) ==
    pc[t] = "get_test" /\ pc'[t] = "get_ret" /\ url[t] = u

\* The step in which get_tbd_url returns None to thread t.
ReturnsNone(t) == pc[t] = "get_check" /\ pc'[t] = "get_ret"

\* The step in which thread t runs the body of mark_url_complete.
Completes(t) == pc[t] = "mark_body" /\ pc'[t] = "mark_ret"

InFlight == UNION { held[t] : t \in Threads }

\* What add_url may change.
addFrame == << _queue, _seen, _completed, _in_progress, _domain_next_allowed >>

\* C1: get_tbd_url returns each URL at most once over the whole run, and no
\* URL is held by two callers, whatever the seed list repeats and whatever
\* links the workers add again.
C1_Dedup ==
    /\ \A u \in URLS : dispatched[u] <= 1
    /\ \A t1, t2 \in Threads : t1 # t2 => held[t1] \cap held[t2] = {}

\* A URL was dispatched and completed, and a later add_url for it has returned.
C1_Witness ==
    \E t \in Threads :
        /\ pc[t] = "add_ret"
        /\ arg[t] \in _completed
        /\ dispatched[arg[t]] = 1

\* C2: when get_tbd_url returns a URL of a host it has dispatched to before,
\* the `now` of this dispatch is at least _delay after the `now` of the
\* host's previous dispatch.
C2_Politeness ==
    [][ \A t \in Threads, u \in URLS :
          (Dispatch(t, u) /\ urlparse(u).netloc \in DOMAIN lastDispatch)
              => now[t] - lastDispatch[urlparse(u).netloc] >= _delay ]_vars

\* Two URLs of one host have been dispatched and both are still in flight.
C2_Witness ==
    /\ "a1" \in InFlight
    /\ "a2" \in InFlight
    /\ dispatched["a1"] = 1
    /\ dispatched["a2"] = 1

\* C3: get_tbd_url returns None only with the queue empty and no URL held
\* by any worker.
C3_DoneSound ==
    [][ \A t \in Threads :
          ReturnsNone(t) => (_queue = <<>> /\ InFlight = {}) ]_vars

\* A worker has left its loop after other URLs were crawled.
C3_Witness ==
    /\ \E t \in Threads : pc[t] = "exit"
    /\ \E u \in URLS : dispatched[u] = 1

\* C4: if every URL a worker holds is eventually completed, then eventually
\* every worker has received None and has left its loop, for good.
C4_Terminates ==
    (\A t \in Threads : [](held[t] # {} => <>(held[t] = {})))
        => <>[](\A t \in Threads : pc[t] = "exit")

\* Every worker has left its loop with all three URLs crawled.
C4_Witness ==
    /\ \A t \in Threads : pc[t] = "exit"
    /\ _completed = URLS

\* C5: a worker that is between two iterations, or whose thread has ended,
\* holds no URL: every URL it received was completed by it.
C5_AlwaysCompleted ==
    \A t \in Threads : pc[t] \in {"run", "exit", "raised"} => held[t] = {}

\* The thread of worker t has ended: it takes no further step.
Stopped(t) == pc[t] \in {"exit", "raised"}

\* C6: whatever fails while a URL is processed, the worker goes on; its
\* thread ends only by get_tbd_url returning None.
C6_StopsOnlyOnNone ==
    \A t \in Threads : Stopped(t) => (pc[t] = "exit" /\ run_url[t] = None)

\* C7: the in-flight counter is never negative, whatever the callers do.
C7_NonNegative == _in_progress >= 0

\* mark_url_complete has run for a URL while nothing was ever dispatched.
C7_Witness ==
    /\ \A u \in URLS : dispatched[u] = 0
    /\ \E t \in Threads : pc[t] = "mark_ret" /\ arg[t] \in URLS

\* C8: outside the critical section, the in-flight counter is the number of
\* URLs returned by get_tbd_url and not yet completed.
C8_CounterExact ==
    _lock = None => _in_progress = Cardinality(InFlight)

\* A completion has just run while another URL is still in flight.
C8_Witness ==
    /\ _lock = None
    /\ _in_progress = 1
    /\ \E t \in Threads : pc[t] = "mark_ret"
    /\ \E t \in Threads : held[t] # {}

\* A step of thread t that enters add_url or is taken inside it.
AddStep(t) ==
    /\ pc'[t] # pc[t]
    /\ pc[t] \in {"add_lock", "add_body"} \/ pc'[t] \in {"add_lock", "add_ret"}

\* C9: a step of add_url(url) changes nothing of the queue, the seen set, the
\* completed set, the counter and the domain table when url is empty or is
\* in the seen or the completed set; otherwise its one step under the lock
\* puts url in the seen set and at the back of the queue, and changes
\* nothing else.
C9_AddFrame ==
    [][ \A t \in Threads :
          AddStep(t) =>
             IF pc[t] = "add_body" /\ arg[t] # ""
                  /\ arg[t] \notin _seen /\ arg[t] \notin _completed
             THEN /\ _seen' = _seen \cup {arg[t]}
                  /\ _queue' = Append(_queue, arg[t])
                  /\ UNCHANGED << _completed, _in_progress,
                                  _domain_next_allowed >>
             ELSE UNCHANGED addFrame ]_vars

\* add_url has returned for a URL that is in the completed set only.
C9_Witness ==
    \E t \in Threads :
        /\ pc[t] = "add_ret"
        /\ arg[t] \in _completed
        /\ arg[t] \notin _seen

\* C10: the completed set is a subset of the seen set, and the body of
\* mark_url_complete(url) runs only in the worker that holds url, for a url
\* not yet in the completed set.
C10_Completed ==
    /\ _completed \subseteq _seen
    /\ [][ /\ _completed' \subseteq _seen'
           /\ \A t \in Threads :
                Completes(t) => (arg[t] \in held[t] /\ arg[t] \notin _completed)
         ]_vars

\* Two URLs are in the completed set.
C10_Witness ==
    /\ Cardinality(_completed) >= 2
    /\ \E t \in Threads : pc[t] = "mark_ret"

\* Thread t is in a call of add_url.
InAdd(t) == pc[t] \in {"add_lock", "add_body", "add_ret"}

\* C11: every URL a worker passes to add_url passes is_valid, and every URL
\* that get_tbd_url has returned passes is_valid or is a configured seed: a
\* link that is out of scope is never dispatched.
C11_Scope ==
    /\ \A t \in Threads : InAdd(t) => is_valid(arg[t])
    /\ \A u \in Links :
          dispatched[u] > 0 => (is_valid(u) \/ u \in offscope_seeds)
    /\ \A u \in _seen : is_valid(u) \/ u \in offscope_seeds

\* The out-of-scope seed was dispatched, and a worker has passed a link it
\* found to add_url.
C11_Witness ==
    /\ dispatched["ev"] = 1
    /\ \E t \in Threads : pc[t] = "add_ret" /\ arg[t] = "a2"

\* The distinct non-empty elements of seeds from position i on, each at
\* its first occurrence.
RECURSIVE FirstOccurrences(_, _)
FirstOccurrences(seeds, i) ==
    IF i > Len(seeds) THEN <<>>
    ELSE (IF seeds[i] # "" /\ \A j \in 1..(i - 1) : seeds[j] # seeds[i]
          THEN << seeds[i] >> ELSE <<>>)
             \o FirstOccurrences(seeds, i + 1)

\* The step in which the Frontier is constructed.
Constructs ==
    /\ \A t \in Threads : pc[t] = "new"
    /\ \E t \in Threads : pc'[t] # "new"

\* C12: constructing the Frontier with seed_urls missing or empty raises
\* with nothing enqueued, no worker starts and no URL is ever dispatched;
\* with a non-empty seed list it leaves the distinct non-empty seeds in the
\* queue in seed order, the same URLs in the seen set, the completed set
\* and the domain table empty and the in-flight counter 0.
C12_Seeding ==
    /\ []((\E t \in Threads : pc[t] = "no_frontier")
            => /\ \A t \in Threads : pc[t] = "no_frontier"
               /\ \A u \in Links : dispatched[u] = 0
               /\ _queue = <<>> /\ _seen = {})
    /\ [][ Constructs =>
             LET seeds == IF "seed_urls" \in DOMAIN config
                          THEN config.seed_urls ELSE <<>>
             IN IF seeds = <<>>
                THEN /\ \A t \in Threads : pc'[t] = "no_frontier"
                     /\ _queue' = <<>> /\ _seen' = {}
                ELSE /\ \A t \in Threads : pc'[t] = "run"
                     /\ _queue' = FirstOccurrences(seeds, 1)
                     /\ _seen' = { seeds[i] : i \in DOMAIN seeds } \ {""}
                     /\ _completed' = {}
                     /\ _domain_next_allowed' = << >>
                     /\ _in_progress' = 0 ]_vars

\* The construction has failed, and time has passed since.
C12_Witness ==
    /\ \A t \in Threads : pc[t] = "no_frontier"
    /\ clock = MaxClock

\* C13: whatever the callers do, also completing a URL that was never
\* dispatched or completing one twice, get_tbd_url returns None only when
\* no caller still holds a URL it received and has not completed.
C13_DoneUnderMisuse ==
    [][ \A t \in Threads : ReturnsNone(t) => InFlight = {} ]_vars

\* Some call of get_tbd_url by a worker has returned None: the worker has
\* the None in hand or has left its loop on it.
Done ==
    \E t \in Threads : pc[t] = "exit" \/ (pc[t] = "get_ret" /\ ret[t] = None)

\* C14: once a call of get_tbd_url has returned None, the queue is empty
\* and the in-flight counter is 0 in every later state, no worker is in a
\* call of add_url, and every test of get_tbd_url under the lock returns
\* None: no call sleeps any more.
C14_DoneStable ==
    /\ [](Done => /\ _queue = <<>>
                  /\ _in_progress = 0
                  /\ \A t \in Threads : ~InAdd(t))
    /\ [][ Done =>
             \A t \in Threads :
                /\ (pc[t] = "get_check" /\ pc'[t] # pc[t])
                      => (pc'[t] = "get_ret" /\ ret'[t] = None)
                /\ pc'[t] = "get_sleep" => pc[t] = "get_sleep" ]_vars

\* One worker has left its loop on None and the other, which completed the
\* last URL, is about to call get_tbd_url again.
C14_Witness ==
    /\ \E t \in Threads : pc[t] = "exit"
    /\ \E t \in Threads : pc[t] = "run"
    /\ _completed # {}

\* C15: a thread that sleeps inside get_tbd_url does not hold the lock, and
\* whoever holds the lock is inside a with block, not asleep: the lock is
\* free again without any time passing.
C15_NoSleepUnderLock ==
    /\ \A t \in Threads : pc[t] = "get_sleep" => _lock # t
    /\ _lock # None =>
          pc[_lock] \in {"get_check", "get_scan", "get_test",
                         "add_body", "mark_body"}

\* One worker sleeps in get_tbd_url, waiting for in-flight work, while the
\* other is inside the critical section of add_url.
C15_Witness ==
    \E t1, t2 \in Threads :
        /\ pc[t1] = "get_sleep"
        /\ pc[t2] = "add_body"
        /\ _lock = t2

\* URL v is ready in the scan pass of thread t: next_allowed <= now.
ReadyIn(t, v) ==
    next_allowed_of(_domain_next_allowed, urlparse(v).netloc) <= now[t]

\* The step in which the scan pass of thread t ends with nothing returned.
ScanFails(t) == pc[t] = "get_scan" /\ pc'[t] = "get_sleep"

scanFrame == << _seen, _completed, _in_progress, _domain_next_allowed >>

\* C17: a scan pass that finds no ready URL pops and re-appends as many
\* times as the queue was long at its start and leaves the queue with the
\* same URLs in the same order; on the way the queue is the starting queue
\* rotated by the number of pops (less the URL in hand), and no step of the
\* pass changes the seen set, the completed set, the in-flight counter or
\* the domain table.
C17_ScanFrame ==
    /\ [](\A t \in Threads :
             LET q0 == scan[t].queue
                 k == scan[t].pops
                 n == Len(q0)
             IN /\ pc[t] = "get_scan" =>
                     /\ k + todo[t] = n
                     /\ _queue = SubSeq(q0, k + 1, n) \o SubSeq(q0, 1, k)
                /\ pc[t] = "get_test" =>
                     /\ k >= 1 /\ k + todo[t] = n
                     /\ url[t] = q0[k]
                     /\ _queue = SubSeq(q0, k + 1, n) \o SubSeq(q0, 1, k - 1))
    /\ [][ \A t \in Threads :
             /\ (pc[t] \in {"get_scan", "get_test"} /\ ~Dispatch(t, url[t]))
                   => UNCHANGED scanFrame
             /\ ScanFails(t) =>
                   /\ scan[t].pops = Len(scan[t].queue)
                   /\ _queue = scan[t].queue
                   /\ _queue' = _queue ]_vars

\* A scan pass has popped and re-appended both URLs of a queue of two and
\* has found neither ready.
C17_Witness ==
    \E t \in Threads :
        /\ pc[t] = "get_scan"
        /\ todo[t] = 0
        /\ scan[t].pops = 2
        /\ _queue = << "a2", "a3" >>

\* C18: when get_tbd_url returns None, every URL of the seen set has been
\* dispatched exactly once and is in the completed set: seen = completed.
C18_NoLostWork ==
    [][ \A t \in Threads :
          ReturnsNone(t) =>
             /\ _seen = _completed
             /\ \A u \in _seen : dispatched[u] = 1 ]_vars

\* A worker has received None after all three URLs were seen.
C18_Witness ==
    /\ \E t \in Threads : pc[t] = "get_ret" /\ ret[t] = None
    /\ _seen = URLS

\* How often u occurs in the queue, and the workers that hold it.
Occurrences(u) == Cardinality({ i \in DOMAIN _queue : _queue[i] = u })
Holders(u) == { t \in Threads : u \in held[t] }

\* C19: with no thread inside the critical section, every URL of the seen
\* set is in exactly one place: once in the queue, or held by exactly one
\* worker, or in the completed set; and the queue holds only URLs of the
\* seen set, none of them twice.
C19_Partition ==
    _lock = None =>
       /\ \A u \in _seen :
             Occurrences(u) + Cardinality(Holders(u))
                + (IF u \in _completed THEN 1 ELSE 0) = 1
       /\ \A i \in DOMAIN _queue :
             _queue[i] \in _seen /\ Occurrences(_queue[i]) = 1
       /\ \A t \in Threads : held[t] \subseteq _seen
       /\ _completed \subseteq _seen

\* One URL is in the queue, one is held by a worker and one is completed,
\* with the lock free.
C19_Witness ==
    /\ _lock = None
    /\ _queue # <<>>
    /\ InFlight # {}
    /\ _completed # {}

====
